---- MODULE Spec2Model ----
(***************************************************************************)
(* Model of the Multimodal-RAG pipeline: rag_utils.py (content extraction, *)
(* image summarisation, embedding, the flat L2 index, answer generation)   *)
(* and the Streamlit script app.py that holds the vector store in its      *)
(* session state.                                                          *)
(*                                                                         *)
(* Spec    : rag_utils.process_files and rag_utils.generate_answer called  *)
(*           directly (process_files(pdf), then generate_answer step by    *)
(*           step).                                                        *)
(* SpecApp : the app.py script, one action per widget event, each event    *)
(*           followed by the whole script run it triggers.                 *)
(*                                                                         *)
(* Python indices are kept 0-based (faiss labels, list positions); TLA+    *)
(* sequences are 1-based, PyIndex does the conversion.  Strings that the   *)
(* code strips are sequences of one-character strings.                     *)
(***************************************************************************)
EXTENDS Integers, Sequences, FiniteSets, TLC

\* ------------------------------------------------------------------ bounds
\* Largest number of pages of an uploaded PDF.
MaxPages == 2
\* Script runs of one browser session.
MaxRuns == 4

\* ------------------------------------------------------- program constants
\* rag_utils.py:116  k = 5
K == 5
\* faiss label of a result slot that has no neighbour (index.search, line 117)
NoResult == -1
\* rag_utils.py:81  def process_files(uploaded_pdf): one positional parameter
ProcessFilesArity == 1
\* app.py:126  rag_utils.process_files(uploaded_pdf, uploaded_image)
AppCallArgs == 2

\* -------------------------------------------------------------- input sets
Whitespace == {" "}
\* Raw page texts as page.get_text("text") returns them.
RawTexts == { <<" ">>, <<" ", "a">>, <<"b", " ">> }
\* Per page, its embedded images: "ok" can be extracted, "corrupt" makes
\* pdf_document.extract_image / Image.open raise.
PageImages == { <<>>, <<"ok">>, <<"corrupt">>, <<"ok", "ok">> }
Pages == [text : RawTexts, images : PageImages]
PDFs == UNION { [1..n -> Pages] : n \in 1..MaxPages }
\* What summarize_image can return for one image: None, or response.text.
SummaryNone == [ok |-> FALSE, text |-> <<>>]
SummaryOutcomes == { SummaryNone, [ok |-> TRUE, text |-> <<>>],
                     [ok |-> TRUE, text |-> <<"c">>] }
Questions == { <<"a">>, <<"c", "b">> }
UploadedImages == { "chart.png" }
ModelTexts == { "model answer" }

\* ----------------------------------------------------------- content items
TextItem(t) == [tag |-> "text", text |-> t, img |-> 0, lit |-> ""]
ImageItem(n) == [tag |-> "image", text |-> <<>>, img |-> n, lit |-> ""]
Fixed(s) == [tag |-> "fixed", text |-> <<>>, img |-> 0, lit |-> s]
\* Identity of the image object made from image img_index of page page_num.
ImageId(page_num, img_index) == page_num * 10 + img_index

\* ------------------------------------------------------------ str.strip()
RECURSIVE LStrip(_)
LStrip(s) ==
  IF s = <<>> THEN s
  ELSE IF Head(s) \in Whitespace THEN LStrip(Tail(s)) ELSE s

RECURSIVE RStrip(_)
RStrip(s) ==
  IF s = <<>> THEN s
  ELSE IF s[Len(s)] \in Whitespace THEN RStrip(SubSeq(s, 1, Len(s) - 1)) ELSE s

Strip(s) == RStrip(LStrip(s))

\* ---------------------------------------------------- extract_pdf_content
\* The inner loop over page.get_images(): an image that cannot be extracted
\* is skipped with a warning.
RECURSIVE PageImageItems(_, _, _)
PageImageItems(images, page_num, img_index) ==
  IF img_index > Len(images) THEN <<>>
  ELSE (IF images[img_index] = "ok"
          THEN <<ImageItem(ImageId(page_num, img_index))>>
          ELSE <<>>)
       \o PageImageItems(images, page_num, img_index + 1)

PageTextItems(page) ==
  IF Strip(page.text) # <<>> THEN <<TextItem(Strip(page.text))>> ELSE <<>>

RECURSIVE ExtractFrom(_, _)
ExtractFrom(pdf_document, page_num) ==
  IF page_num > Len(pdf_document) THEN <<>>
  ELSE PageTextItems(pdf_document[page_num])
       \o PageImageItems(pdf_document[page_num].images, page_num, 1)
       \o ExtractFrom(pdf_document, page_num + 1)

extract_pdf_content(uploaded_pdf) == ExtractFrom(uploaded_pdf, 1)

ImageIds(content_store) ==
  { content_store[i].img :
      i \in { j \in DOMAIN content_store : content_store[j].tag = "image" } }

\* ------------------------------------------------------------- embeddings
\* The local sentence-transformer: a deterministic map from a string to a
\* fixed-dimension vector (here dimension 2).
CharVec(c) ==
  CASE c = "a" -> <<1, 0>>
    [] c = "b" -> <<0, 2>>
    [] c = "c" -> <<3, 3>>
    [] OTHER   -> <<0, 0>>

RECURSIVE Encode(_)
Encode(t) ==
  IF t = <<>> THEN <<0, 0>>
  ELSE LET h == CharVec(Head(t))
           r == Encode(Tail(t))
       IN  <<h[1] + r[1], h[2] + r[2]>>

get_local_embeddings(texts) == [i \in DOMAIN texts |-> Encode(texts[i])]

\* ----------------------------------------------------------- vector store
NoStore == [kind |-> "unset", index |-> <<>>, content_store |-> <<>>]
NoneStore == [kind |-> "none", index |-> <<>>, content_store |-> <<>>]
IsStore(vs) == vs.kind = "store"

create_vector_store(embeddings, content_store) ==
  [kind |-> "store", index |-> embeddings, content_store |-> content_store]

\* ---------------------------------------------------------- process_files
\* The loop of lines 89-97 from position i on.  summaries[id] is what
\* summarize_image returns for the image id; a None or empty summary adds
\* nothing to all_texts_to_embed.
RECURSIVE TextsToEmbed(_, _, _)
TextsToEmbed(content_store, summaries, i) ==
  IF i > Len(content_store) THEN <<>>
  ELSE LET item == content_store[i]
           rest == TextsToEmbed(content_store, summaries, i + 1)
       IN  IF item.tag = "text" THEN <<item.text>> \o rest
           ELSE LET image_summary == summaries[item.img]
                IN  IF image_summary.ok /\ image_summary.text # <<>>
                      THEN <<image_summary.text>> \o rest
                      ELSE rest

\* process_files as it would be if a failed summary aborted the run.
process_files_abort(uploaded_pdf, summaries) ==
  LET content_store == extract_pdf_content(uploaded_pdf)
      all_texts_to_embed == TextsToEmbed(content_store, summaries, 1)
  IN  IF \/ all_texts_to_embed = <<>>
         \/ \E id \in DOMAIN summaries :
              ~summaries[id].ok \/ summaries[id].text = <<>>
        THEN NoneStore
        ELSE create_vector_store(get_local_embeddings(all_texts_to_embed),
                                 content_store)

process_files(uploaded_pdf, summaries) ==
  LET content_store == extract_pdf_content(uploaded_pdf)
      all_texts_to_embed == TextsToEmbed(content_store, summaries, 1)
  IN  IF all_texts_to_embed = <<>> THEN NoneStore
      ELSE create_vector_store(get_local_embeddings(all_texts_to_embed),
                               content_store)

\* -------------------------------------------------------- generate_answer
\* Squared Euclidean distance, the metric of faiss.IndexFlatL2.
Dist2(u, v) == (u[1] - v[1]) * (u[1] - v[1]) + (u[2] - v[2]) * (u[2] - v[2])

\* Label i is ranked before label j: nearer, or as near and inserted first.
Before(index, q, i, j) ==
  \/ Dist2(index[i + 1], q) < Dist2(index[j + 1], q)
  \/ Dist2(index[i + 1], q) = Dist2(index[j + 1], q) /\ i <= j

\* index.search(q, k): the labels of the k nearest vectors, nearest first;
\* the slots for which the index has no vector hold the label -1.
RECURSIVE SearchFrom(_, _, _, _)
SearchFrom(index, q, remaining, k) ==
  IF k = 0 THEN <<>>
  ELSE IF remaining = {} THEN <<NoResult>> \o SearchFrom(index, q, {}, k - 1)
  ELSE LET best == CHOOSE i \in remaining :
                     \A j \in remaining : Before(index, q, i, j)
       IN  <<best>> \o SearchFrom(index, q, remaining \ {best}, k - 1)

Search(index, q, k) == SearchFrom(index, q, 0..(Len(index) - 1), k)

\* Python list indexing: a negative position counts from the end.
PyIndex(list, i) == IF i >= 0 THEN list[i + 1] ELSE list[Len(list) + i + 1]

\* line 119: [i for i in indices[0] if i < len(content_store)]
ValidIndex(i, content_store) == i < Len(content_store)

ValidIndices(indices, content_store) ==
  SelectSeq(indices, LAMBDA i : ValidIndex(i, content_store))

\* line 120: [content_store[i] for i in valid_indices]
RetrievedContext(valid_indices, content_store) ==
  [n \in DOMAIN valid_indices |-> PyIndex(content_store, valid_indices[n])]

SystemInstruction ==
  Fixed("You are an expert analyst. Answer the user's question based ONLY on the following context. If the context does not contain the answer, state that you don't know.")
ContextStart == Fixed("\n--- CONTEXT START ---\n")
ImageBelow == Fixed("\n[Image context below]\n")
ImageEnd == Fixed("\n[End of image context]\n")
\* line 134: the closing part, an f-string holding the user's question.
QuestionPart(user_question) ==
  [tag |-> "question", text |-> user_question, img |-> 0,
   lit |-> "\n--- CONTEXT END ---\n\nQuestion: {user_question}\n\nAnswer:"]

\* lines 126-133: what one retrieved item appends to prompt_parts.
\* ItemParts with the image object itself left out between its markers.
ItemPartsNoImage(item) ==
  IF item.tag = "text" THEN <<item>>
  ELSE IF item.tag = "image" THEN <<ImageBelow, ImageEnd>>
  ELSE <<>>

ItemParts(item) ==
  IF item.tag = "text" THEN <<item>>
  ELSE IF item.tag = "image" THEN <<ImageBelow, item, ImageEnd>>
  ELSE <<>>

RECURSIVE ContextParts(_, _)
ContextParts(retrieved_context, n) ==
  IF n > Len(retrieved_context) THEN <<>>
  ELSE ItemParts(retrieved_context[n]) \o ContextParts(retrieved_context, n + 1)

\* lines 122-134
BuildPrompt(retrieved_context, user_question) ==
  <<SystemInstruction, ContextStart>>
  \o ContextParts(retrieved_context, 1)
  \o <<QuestionPart(user_question)>>

Fallback == "Sorry, I encountered an error while generating the answer."

\* lines 137-142: the single model.generate_content call inside try/except.
GenerateOutcomes ==
  { [ok |-> TRUE, text |-> t] : t \in ModelTexts } \cup { [ok |-> FALSE, text |-> ""] }

\* GenerateResult without the except clause: the fault leaves the function.
GenerateResultPropagates(outcome) ==
  IF outcome.ok
    THEN [pc |-> "Done", answer |-> outcome.text, raised |-> FALSE]
    ELSE [pc |-> "Failed", answer |-> "", raised |-> TRUE]

GenerateResult(outcome) ==
  IF outcome.ok
    THEN [pc |-> "Done", answer |-> outcome.text, raised |-> FALSE]
    ELSE [pc |-> "Failed", answer |-> Fallback, raised |-> FALSE]

\* The whole of generate_answer for one question and one outcome of the
\* generation call: the prompt it sent and what it returned.
generate_answer(user_question, vs, outcome) ==
  LET question_embedding == Encode(user_question)
      indices == Search(vs.index, question_embedding, K)
      valid_indices == ValidIndices(indices, vs.content_store)
      retrieved_context == RetrievedContext(valid_indices, vs.content_store)
  IN  [prompt_parts |-> BuildPrompt(retrieved_context, user_question),
       answer |-> GenerateResult(outcome).answer]

\* ------------------------------------------------------------------ app.py
\* An uploaded file is its name and its bytes; NoFile is an empty uploader.
NoFile == [name |-> "", data |-> <<>>]
PdfNames == {"a.pdf", "b.pdf"}
ImageNames == {"x.png", "y.png"}
\* The PDFs a user uploads here: one page of text, with or without an image.
AppPdfDatas ==
  { <<[text |-> <<" ", "a">>, images |-> <<>>]>>,
    <<[text |-> <<"b", " ">>, images |-> <<"ok">>]>> }
AppImageDatas == { <<"chart1">>, <<"chart2">> }
PdfFiles == [name : PdfNames, data : AppPdfDatas]
ImageFiles == [name : ImageNames, data : AppImageDatas]
NoQuestion == <<>>

\* st.session_state: the keys it holds and their values.
EmptySession ==
  [keys |-> {}, vector_store |-> NoStore, pdf_name |-> "", image_name |-> "",
   messages |-> <<>>]
NoSource == <<NoFile, NoFile>>

\* line 126: rag_utils.process_files(uploaded_pdf, uploaded_image).  Python
\* binds the arguments before the body runs: a call with more positional
\* arguments than the function has parameters raises TypeError.
NotCalled == [called |-> FALSE, raised |-> FALSE, value |-> NoStore]
AppCall(pdf_file, image_file) ==
  IF AppCallArgs # ProcessFilesArity
    THEN { [called |-> TRUE, raised |-> TRUE, value |-> NoStore] }
    ELSE { [called |-> TRUE, raised |-> FALSE,
            value |-> process_files(pdf_file.data, s)] :
             s \in [ImageIds(extract_pdf_content(pdf_file.data)) -> SummaryOutcomes] }

\* line 120
NeedsProcessing(ss, pdf_name, image_name) ==
  \/ "pdf_name" \notin ss.keys \/ ss.pdf_name # pdf_name
  \/ "image_name" \notin ss.keys \/ ss.image_name # image_name
  \/ "vector_store" \notin ss.keys

\* lines 126-140 once process_files has returned v.
AfterProcess(ss, v, pdf_name, image_name) ==
  LET stored == [ss EXCEPT !.keys = @ \cup {"vector_store", "pdf_name", "image_name"},
                           !.vector_store = v,
                           !.pdf_name = pdf_name,
                           !.image_name = image_name,
                           !.messages = <<>>]
  IN  IF IsStore(v) THEN stored
      ELSE [stored EXCEPT !.keys = @ \ {"vector_store", "pdf_name", "image_name"},
                          !.vector_store = NoStore,
                          !.pdf_name = "",
                          !.image_name = ""]

\* lines 117-151.  An exception raised by the call ends the script run and
\* leaves the session state as it was.
MainLogic(ss, source, pdf_file, image_file, call) ==
  IF pdf_file # NoFile /\ image_file # NoFile
    THEN IF NeedsProcessing(ss, pdf_file.name, image_file.name)
           THEN IF call.raised
                  THEN [ss |-> ss, source |-> source, process |-> "raised",
                        ended |-> "exception"]
                  ELSE [ss |-> AfterProcess(ss, call.value, pdf_file.name,
                                            image_file.name),
                        source |-> IF IsStore(call.value)
                                     THEN <<pdf_file, image_file>> ELSE NoSource,
                        process |-> IF IsStore(call.value) THEN "store" ELSE "none",
                        ended |-> "completed"]
           ELSE [ss |-> ss, source |-> source, process |-> "not_called",
                 ended |-> "completed"]
    ELSE [ss |-> IF "vector_store" \in ss.keys THEN EmptySession ELSE ss,
          source |-> IF "vector_store" \in ss.keys THEN NoSource ELSE source,
          process |-> "not_called", ended |-> "completed"]

\* ChatGuard with the test of the held store left out.
ChatGuardAlways(ss) == TRUE

\* line 156
ChatGuard(ss) == "vector_store" \in ss.keys /\ IsStore(ss.vector_store)

\* lines 156-183
ChatInterface(ss, question, outcome) ==
  IF ~ChatGuard(ss) THEN [ss |-> ss, offered |-> FALSE, asked |-> NoStore]
  ELSE LET ss1 == IF "messages" \in ss.keys THEN ss
                  ELSE [ss EXCEPT !.keys = @ \cup {"messages"}, !.messages = <<>>]
       IN  IF question = NoQuestion
             THEN [ss |-> ss1, offered |-> TRUE, asked |-> NoStore]
             ELSE [ss |-> [ss1 EXCEPT !.messages =
                       @ \o << [role |-> "user", text |-> question, lit |-> ""],
                               [role |-> "assistant", text |-> <<>>,
                                lit |-> generate_answer(question, ss1.vector_store,
                                                        outcome).answer] >>],
                   offered |-> TRUE,
                   asked |-> ss1.vector_store]

\* ------------------------------------------------------------------ state
VARIABLES
  uploaded_pdf,        \* the PDF handed to process_files
  uploaded_image,      \* the image the user uploaded beside it
  summaries,           \* what summarize_image returned, per image
  vector_store,        \* what process_files returned
  pc,                  \* where generate_answer is
  user_question,
  question_embedding,
  indices,             \* indices[0] of index.search
  valid_indices,
  retrieved_context,
  prompt_parts,
  answer,              \* what generate_answer returned
  raised,              \* a fault left generate_answer
  model_calls,         \* model.generate_content calls of this run
  trace,               \* the stages this run went through
  api_key,             \* GOOGLE_API_KEY is set
  pdf_uploader,        \* the file in st.file_uploader "pdf_uploader"
  image_uploader,      \* the file in st.file_uploader "image_uploader"
  session_state,       \* st.session_state
  store_source,        \* the files the held vector store was built from
  script_result,       \* how the last script run ended
  process_result,      \* what the last run's process_files call did
  chat_offered,        \* the last run rendered st.chat_input
  answered_with,       \* the store the last run's question was answered from
  script_runs          \* script runs so far

libVars == <<uploaded_pdf, uploaded_image, summaries, vector_store>>
runVars == <<pc, user_question, question_embedding, indices, valid_indices,
             retrieved_context, prompt_parts, answer, raised, model_calls, trace>>
appVars == <<api_key, pdf_uploader, image_uploader, session_state, store_source,
             script_result, process_result, chat_offered, answered_with,
             script_runs>>
vars == <<libVars, runVars, appVars>>

NoPdf == <<>>

InitLib ==
  /\ uploaded_pdf = NoPdf
  /\ uploaded_image = ""
  /\ summaries = <<>>
  /\ vector_store = NoStore
  /\ pc = "idle"
  /\ user_question = <<>>
  /\ question_embedding = <<0, 0>>
  /\ indices = <<>>
  /\ valid_indices = <<>>
  /\ retrieved_context = <<>>
  /\ prompt_parts = <<>>
  /\ answer = ""
  /\ raised = FALSE
  /\ model_calls = 0
  /\ trace = <<>>

InitSession ==
  /\ pdf_uploader = NoFile
  /\ image_uploader = NoFile
  /\ session_state = EmptySession
  /\ store_source = NoSource
  /\ script_result = "none"
  /\ process_result = "not_called"
  /\ chat_offered = FALSE
  /\ answered_with = NoStore
  /\ script_runs = 0

Init == InitLib /\ InitSession /\ api_key = TRUE

\* process_files(uploaded_pdf): the whole pipeline run, with one
\* summarize_image outcome per extracted image.
ProcessFiles ==
  /\ pc = "idle"
  /\ vector_store.kind = "unset"
  /\ \E pdf \in PDFs, image \in UploadedImages :
       \E s \in [ImageIds(extract_pdf_content(pdf)) -> SummaryOutcomes] :
         /\ uploaded_pdf' = pdf
         /\ uploaded_image' = image
         /\ summaries' = s
         /\ vector_store' = process_files(pdf, s)
  /\ UNCHANGED <<runVars, appVars>>

\* generate_answer(user_question, vector_store) is entered (lines 111-112).
Begin ==
  /\ pc = "idle"
  /\ IsStore(vector_store)
  /\ \E q \in Questions : user_question' = q
  /\ pc' = "Embedding"
  /\ trace' = <<"Embedding">>
  /\ UNCHANGED <<libVars, appVars, question_embedding, indices, valid_indices,
                 retrieved_context, prompt_parts, answer, raised, model_calls>>

\* line 114
Embedding ==
  /\ pc = "Embedding"
  /\ question_embedding' = Encode(user_question)
  /\ pc' = "Searching"
  /\ trace' = Append(trace, "Searching")
  /\ UNCHANGED <<libVars, appVars, user_question, indices, valid_indices,
                 retrieved_context, prompt_parts, answer, raised, model_calls>>

\* lines 116-117
Searching ==
  /\ pc = "Searching"
  /\ indices' = Search(vector_store.index, question_embedding, K)
  /\ pc' = "Assembling"
  /\ trace' = Append(trace, "Assembling")
  /\ UNCHANGED <<libVars, appVars, user_question, question_embedding,
                 valid_indices, retrieved_context, prompt_parts, answer, raised,
                 model_calls>>

\* lines 119-134
Assembling ==
  /\ pc = "Assembling"
  /\ LET vi == ValidIndices(indices, vector_store.content_store)
         rc == RetrievedContext(vi, vector_store.content_store)
     IN  /\ valid_indices' = vi
         /\ retrieved_context' = rc
         /\ prompt_parts' = BuildPrompt(rc, user_question)
  /\ pc' = "Generating"
  /\ trace' = Append(trace, "Generating")
  /\ UNCHANGED <<libVars, appVars, user_question, question_embedding, indices,
                 answer, raised, model_calls>>

\* lines 136-142
Generating ==
  /\ pc = "Generating"
  /\ \E outcome \in GenerateOutcomes :
       LET r == GenerateResult(outcome)
       IN  /\ pc' = r.pc
           /\ answer' = r.answer
           /\ raised' = r.raised
           /\ trace' = Append(trace, r.pc)
  /\ model_calls' = model_calls + 1
  /\ UNCHANGED <<libVars, appVars, user_question, question_embedding, indices,
                 valid_indices, retrieved_context, prompt_parts>>

Next ==
  \/ ProcessFiles
  \/ Begin
  \/ Embedding
  \/ Searching
  \/ Assembling
  \/ Generating

Spec == Init /\ [][Next]_vars

\* ------------------------------------------------------- app.py script runs
\* One run of the script with the uploaders holding pdf_file and image_file
\* and, when the chat input was on screen, possibly a submitted question.
ScriptRun(pdf_file, image_file, question) ==
  /\ script_runs < MaxRuns
  /\ script_runs' = script_runs + 1
  /\ pdf_uploader' = pdf_file
  /\ image_uploader' = image_file
  /\ IF ~api_key
       THEN \* lines 110-113: st.stop()
            /\ script_result' = "stopped"
            /\ process_result' = "not_called"
            /\ chat_offered' = FALSE
            /\ answered_with' = NoStore
            /\ UNCHANGED <<session_state, store_source>>
       ELSE \E call \in (IF /\ pdf_file # NoFile /\ image_file # NoFile
                            /\ NeedsProcessing(session_state, pdf_file.name,
                                               image_file.name)
                           THEN AppCall(pdf_file, image_file) ELSE {NotCalled}),
               outcome \in GenerateOutcomes :
              LET main == MainLogic(session_state, store_source, pdf_file,
                                    image_file, call)
                  chat == ChatInterface(main.ss, question, outcome)
              IN  /\ script_result' = main.ended
                  /\ process_result' = main.process
                  /\ IF main.ended = "exception"
                       THEN /\ session_state' = main.ss
                            /\ store_source' = main.source
                            /\ chat_offered' = FALSE
                            /\ answered_with' = NoStore
                       ELSE /\ session_state' = chat.ss
                            /\ store_source' = main.source
                            /\ chat_offered' = chat.offered
                            /\ answered_with' = chat.asked
  /\ UNCHANGED <<libVars, runVars, api_key>>

\* A question can be submitted only through a chat input that is on screen.
Submittable == IF chat_offered THEN Questions \cup {NoQuestion} ELSE {NoQuestion}

UploadPdf ==
  \E f \in PdfFiles, q \in Submittable :
    f # pdf_uploader /\ ScriptRun(f, image_uploader, q)

RemovePdf ==
  \E q \in Submittable :
    pdf_uploader # NoFile /\ ScriptRun(NoFile, image_uploader, q)

UploadImage ==
  \E f \in ImageFiles, q \in Submittable :
    f # image_uploader /\ ScriptRun(pdf_uploader, f, q)

RemoveImage ==
  \E q \in Submittable :
    image_uploader # NoFile /\ ScriptRun(pdf_uploader, NoFile, q)

\* Any other interaction, or the first page load: the script runs again.
Rerun ==
  \E q \in Submittable : ScriptRun(pdf_uploader, image_uploader, q)

NextApp ==
  \/ UploadPdf
  \/ RemovePdf
  \/ UploadImage
  \/ RemoveImage
  \/ Rerun

InitApp == InitLib /\ InitSession /\ api_key \in BOOLEAN

SpecApp == InitApp /\ [][NextApp]_vars

\* ================================================================ claims
Processed == vector_store.kind # "unset"
\* generate_answer has looked its context up (lines 119-134 have run).
Retrieved == pc \in {"Generating", "Done", "Failed"}
NVectors == Len(vector_store.index)

\* Some image's summarisation returned None.
SummaryFailed == \E id \in DOMAIN summaries : ~summaries[id].ok
\* Pages of the uploaded PDF whose trimmed text is not empty.
TextPages == { p \in DOMAIN uploaded_pdf : Strip(uploaded_pdf[p].text) # <<>> }
\* Images whose summarisation returned a non-empty text.
SummarisedImages ==
  { id \in DOMAIN summaries : summaries[id].ok /\ summaries[id].text # <<>> }

\* C1: after every successful process_files run the index holds as many
\* vectors as the context store holds items.
C1_IndexMatchesContextStore ==
  IsStore(vector_store) =>
    Len(vector_store.index) = Len(vector_store.content_store)

SourceText(item) ==
  IF item.tag = "text" THEN item.text ELSE summaries[item.img].text

\* C3: in a returned store the vector at every index position was computed
\* from the content item at the same context-store position (an image's
\* vector from its generated summary).
C3_VectorsAligned ==
  IsStore(vector_store) =>
    \A i \in DOMAIN vector_store.index :
      /\ i <= Len(vector_store.content_store)
      /\ LET item == vector_store.content_store[i]
         IN  /\ item.tag = "image" => item.img \in SummarisedImages
             /\ vector_store.index[i] = Encode(SourceText(item))

\* C4: with n < 5 vectors stored, the retrieval yields exactly the n stored
\* items, each once, and never maps a "no result" label to an item.
C4_FewVectorsNoPadding ==
  (Retrieved /\ NVectors < K) =>
    /\ Len(valid_indices) = NVectors
    /\ Len(retrieved_context) = NVectors
    /\ { valid_indices[j] : j \in DOMAIN valid_indices } = 0..(NVectors - 1)

\* C5: the indices used to fetch context number at most k, each lies in
\* 0..n-1, and they are ordered by non-decreasing squared L2 distance from
\* the query vector.
C5_IndicesBoundedSorted ==
  Retrieved =>
    /\ Len(valid_indices) <= K
    /\ \A j \in DOMAIN valid_indices : valid_indices[j] \in 0..(NVectors - 1)
    /\ \A j, l \in DOMAIN valid_indices :
         j < l =>
           Dist2(vector_store.index[valid_indices[j] + 1], question_embedding)
             <= Dist2(vector_store.index[valid_indices[l] + 1], question_embedding)

\* C6: a generate_answer run goes through Embedding, Searching, Assembling,
\* Generating in that order and calls the generation model exactly once; a
\* successful call ends the run Done with the model's text, a failed call
\* ends it Failed with the fixed fallback string, no fault leaving the
\* function and no second call.
C6_OneCallThenDoneOrFailed ==
  /\ pc \in {"idle", "Embedding", "Searching", "Assembling", "Generating"} =>
       /\ model_calls = 0
       /\ raised = FALSE
       /\ trace = SubSeq(<<"Embedding", "Searching", "Assembling", "Generating">>,
                         1, Len(trace))
       /\ pc = (IF trace = <<>> THEN "idle" ELSE trace[Len(trace)])
  /\ pc = "Done" =>
       /\ trace = <<"Embedding", "Searching", "Assembling", "Generating", "Done">>
       /\ model_calls = 1
       /\ answer \in ModelTexts
       /\ raised = FALSE
  /\ pc = "Failed" =>
       /\ trace = <<"Embedding", "Searching", "Assembling", "Generating", "Failed">>
       /\ model_calls = 1
       /\ answer = Fallback
       /\ raised = FALSE
  /\ pc \in {"idle", "Embedding", "Searching", "Assembling", "Generating",
             "Done", "Failed"}

\* C6 witness: a run whose single model call failed.
C6_Witness == pc = "Failed" /\ model_calls = 1

IsContent(part) == part.tag \in {"text", "image"}

\* C7: the prompt is the fixed system instruction, then every retrieved item
\* in retrieval order (a text verbatim, an image as the image object), then
\* the part holding the user's literal question; between the first and the
\* last part nothing but retrieved items and fixed markers appears.
C7_PromptOrdered ==
  Retrieved =>
    LET n == Len(prompt_parts)
        middle == SubSeq(prompt_parts, 2, n - 1)
    IN  /\ n >= 2
        /\ prompt_parts[1] = SystemInstruction
        /\ prompt_parts[n].tag = "question"
        /\ prompt_parts[n].text = user_question
        /\ SelectSeq(middle, IsContent) = retrieved_context
        /\ \A i \in DOMAIN middle :
             ~IsContent(middle[i]) =>
               middle[i] \in {ContextStart, ImageBelow, ImageEnd}

\* C7 witness: a prompt assembled from both a text and an image.
C7_Witness ==
  /\ Retrieved
  /\ \E i, j \in DOMAIN retrieved_context :
       /\ retrieved_context[i].tag = "text"
       /\ retrieved_context[j].tag = "image"

\* The content item the uploaded image file would give: an image that does
\* not come from a page of the PDF.
UploadedImageItem == ImageItem(ImageId(0, 1))

RECURSIVE TrimmedPageTexts(_, _)
TrimmedPageTexts(pdf, p) ==
  IF p > Len(pdf) THEN <<>>
  ELSE (IF p \in TextPages THEN <<TextItem(Strip(pdf[p].text))>> ELSE <<>>)
       \o TrimmedPageTexts(pdf, p + 1)

\* C10: a successful process of a PDF and an uploaded image yields the
\* trimmed non-empty page texts in page order followed by exactly one image
\* item, the uploaded image.
C10_TextsThenUploadedImage ==
  IsStore(vector_store) =>
    vector_store.content_store =
      TrimmedPageTexts(uploaded_pdf, 1) \o <<UploadedImageItem>>

\* ------------------------------------------------- claims about the session
BothUploaded == pdf_uploader # NoFile /\ image_uploader # NoFile

\* process_files returns a store for this PDF whatever the summariser does.
Processable(data) ==
  \A s \in [ImageIds(extract_pdf_content(data)) -> SummaryOutcomes] :
    IsStore(process_files(data, s))

\* The session holds a store that a process_files run on its source returned.
HoldsCompleteStore ==
  /\ "vector_store" \in session_state.keys
  /\ IsStore(session_state.vector_store)
  /\ \E s \in [ImageIds(extract_pdf_content(store_source[1].data)) -> SummaryOutcomes] :
       session_state.vector_store = process_files(store_source[1].data, s)

\* C8: once the script has run on an uploaded PDF/image pair, the session
\* holds a store built from exactly the files now uploaded, and a question is
\* answered only against such a store.
C8_StoreTracksUploads ==
  /\ (/\ api_key
      /\ script_result # "none"
      /\ BothUploaded
      /\ Processable(pdf_uploader.data)) =>
       /\ "vector_store" \in session_state.keys
       /\ IsStore(session_state.vector_store)
       /\ store_source = <<pdf_uploader, image_uploader>>
  /\ IsStore(answered_with) => store_source = <<pdf_uploader, image_uploader>>

\* C9: the chat input is offered, and generate_answer is called, only while
\* the session holds a complete store returned by process_files; after a
\* process_files call that raised or returned None the session holds no
\* vector store at all.
C9_ChatOnlyWithCompleteStore ==
  /\ chat_offered => HoldsCompleteStore
  /\ answered_with # NoStore =>
       /\ HoldsCompleteStore
       /\ answered_with = session_state.vector_store
  /\ process_result \in {"raised", "none"} =>
       /\ "vector_store" \notin session_state.keys
       /\ session_state.vector_store = NoStore
       /\ ~chat_offered

\* C9 witness: the front end's process_files call has raised.
C9_Witness ==
  /\ BothUploaded
  /\ process_result = "raised"
  /\ script_result = "exception"
  /\ "vector_store" \notin session_state.keys

====
